---- MODULE Spec2Model ----
(***************************************************************************)
(* First-fit heap allocator of wasabi-os (src/src/allocator.rs).           *)
(*                                                                         *)
(* Memory is modelled as the set of Header structs that have been written  *)
(* into it: hdr maps the address of every header to its fields.  The chain *)
(* is rooted at first_header and threaded through next_header.             *)
(* Option<Box<Header>> is an address, or None.                             *)
(***************************************************************************)
EXTENDS Integers, Sequences, FiniteSets, TLC

\* ------------------------------------------------------------------ bounds
\* usize::BITS, scaled down so that the address word fits the checker.
WordBits == 16
\* Allocation requests are issued while fewer headers than this exist.
MaxHeaders == 5
\* Longest memory map handed to init_with_mmap.
MaxDescs == 2
\* Allocations made after an observed init_with_mmap.
MaxObservedAllocs == 1
\* Allocations made in the runs that allow re-entry.
MaxReentryAllocs == 2

\* ------------------------------------------------------- program constants
HEADER_SIZE == 32
PAGE_SIZE == 4096

RECURSIVE Pow2(_)
Pow2(n) == IF n = 0 THEN 1 ELSE 2 * Pow2(n - 1)

Word == Pow2(WordBits)
UsizeMax == Word - 1

None == 0 - 1
null_mut == 0

max(a, b) == IF a >= b THEN a ELSE b

\* ------------------------------------------------------ word arithmetic
RECURSIVE BitLen(_)
BitLen(x) == IF x = 0 THEN 0 ELSE 1 + BitLen(x \div 2)

wrapping_sub(a, b) == (a - b) % Word

leading_zeros(x) == WordBits - BitLen(x)

\* Mutant: 1usize.wrapping_shl(n), which never fails.
wrapping_shl(n) == [ok |-> TRUE, val |-> Pow2(n % WordBits)]

\* 1usize.checked_shl(n): None when n >= usize::BITS.
checked_shl(n) == IF n >= WordBits THEN [ok |-> FALSE, val |-> 0]
                                   ELSE [ok |-> TRUE, val |-> Pow2(n)]

RECURSIVE BitAnd(_, _)
BitAnd(a, b) ==
    IF a = 0 \/ b = 0 THEN 0
    ELSE (IF a % 2 = 1 /\ b % 2 = 1 THEN 1 ELSE 0) + 2 * BitAnd(a \div 2, b \div 2)

BitNot(a) == UsizeMax - a

saturating_sub(a, b) == IF a >= b THEN a - b ELSE 0

\* Mutant: v.saturating_sub(1), so that 0 rounds up to 1.
round_up_saturating(v) ==
    checked_shl(WordBits - leading_zeros(saturating_sub(v, 1)))

\* Mutant: the bit length of v itself, not of v - 1.
round_up_no_sub(v) == checked_shl(WordBits - leading_zeros(v))

\* Mutant: the largest power of two <= v.
round_down_to_pow2(v) ==
    IF v = 0 THEN checked_shl(WordBits) ELSE checked_shl(WordBits - leading_zeros(v) - 1)

round_up_to_nearest_pow2(v) ==
    checked_shl(WordBits - leading_zeros(wrapping_sub(v, 1)))

\* ------------------------------------------------------------------ Header
Header(next, size, alloc) ==
    [next_header |-> next, size |-> size, is_allocated |-> alloc]

\* header.write(..) at addr: the bytes at addr now hold a fresh Header.
new_from_addr(m, addr) ==
    [a \in DOMAIN m \cup {addr} |->
        IF a = addr THEN Header(None, 0, FALSE) ELSE m[a]]

\* Mutant: no room demanded for the two headers.
can_provide_no_headroom(m, self, size, align) ==
    m[self].size >= (size + align) % Word

can_provide(m, self, size, align) ==
    m[self].size >= (size + HEADER_SIZE * 2 + align) % Word

is_allocated(m, self) == m[self].is_allocated

end_addr(m, self) == (self + m[self].size) % Word

\* Mutant: the header is looked for at the payload address.
from_allocated_region_no_offset(addr) == addr

from_allocated_region(addr) == wrapping_sub(addr, HEADER_SIZE)

\* Mutant: the address is not rounded down to the alignment.
allocated_addr_unaligned(m, self, size, align) ==
    wrapping_sub((self + m[self].size) % Word, size)

\* (self.end_addr() - size) & !(align - 1)
allocated_addr_of(m, self, size, align) ==
    BitAnd(wrapping_sub(end_addr(m, self), size), BitNot(align - 1))

\* Mutant: a null pointer is returned as an allocation.
ProvideSomeNull(m) == [some |-> TRUE, ptr |-> null_mut, mem |-> m, panic |-> FALSE]

\* provide returns None: nothing was written.
ProvideNone(m) == [some |-> FALSE, ptr |-> null_mut, mem |-> m, panic |-> FALSE]

\* Mutant: the header is not counted in the chunk size.
allocated_chunk_size_no_header(size) == size

\* header_for_allocated.size = size + HEADER_SIZE
allocated_chunk_size(size) == size + HEADER_SIZE

\* Mutant: self keeps its size.
shrink_forgotten(m, self, size_used) == m

\* self.size -= size_used
shrink(m, self, size_used) ==
    [m EXCEPT ![self].size = wrapping_sub(m[self].size, size_used)]

\* Mutant: the bytes of a new chunk are not counted.
add_used_forgotten(size_used, chunk_size) == size_used

\* size_used += header.size
add_used(size_used, chunk_size) == (size_used + chunk_size) % Word

\* Mutant: the padding chunk stops one header short of the end of self.
padding_size_short(m, self, ha) ==
    wrapping_sub(wrapping_sub(end_addr(m, self), end_addr(m, ha)), HEADER_SIZE)

\* header_for_padding.size = self.end_addr() - header_for_allocated.end_addr()
padding_size(m, self, ha) == wrapping_sub(end_addr(m, self), end_addr(m, ha))

\* Mutant: the padding header is written but never linked.
link_padding_lost(m, ha, hp) == m

\* header_for_padding.next_header = header_for_allocated.next_header.take();
\* header_for_allocated.next_header = Some(header_for_padding)
link_padding(m, ha, hp) ==
    LET taken2 == m[ha].next_header
    IN  [[[m EXCEPT ![ha].next_header = None]
              EXCEPT ![hp].next_header = taken2]
              EXCEPT ![ha].next_header = hp]

\* Mutant: self is not linked to the allocated header.
splice_forgotten(m, self, ha) == m

\* self.next_header = Some(header_for_allocated)
splice(m, self, ha) == [m EXCEPT ![self].next_header = ha]

\* Lines 104-126 of provide, the memory written statement by statement.
split(m, self, size, align) ==
    LET allocated_addr == allocated_addr_of(m, self, size, align)
        ha == wrapping_sub(allocated_addr, HEADER_SIZE)
        m1 == new_from_addr(m, ha)
        m2 == [m1 EXCEPT ![ha].is_allocated = TRUE,
                         ![ha].size = allocated_chunk_size(size)]
        used1 == add_used(0, m2[ha].size)
        taken == m2[self].next_header
        m3 == [[m2 EXCEPT ![self].next_header = None]
                   EXCEPT ![ha].next_header = taken]
        pad == end_addr(m3, ha) # end_addr(m3, self)
        hp == end_addr(m3, ha)
        m4 == new_from_addr(m3, hp)
        m5 == [m4 EXCEPT ![hp].is_allocated = FALSE,
                         ![hp].size = padding_size(m4, self, ha)]
        used2 == add_used(used1, m5[hp].size)
        m6 == link_padding(m5, ha, hp)
        mm == IF pad THEN m6 ELSE m3
        size_used == IF pad THEN used2 ELSE used1
    IN  IF mm[self].size >= size_used + HEADER_SIZE
        THEN [some |-> TRUE, ptr |-> allocated_addr, panic |-> FALSE,
              mem |-> splice(shrink(mm, self, size_used), self, ha)]
        ELSE [some |-> FALSE, ptr |-> null_mut, panic |-> TRUE, mem |-> mm]

provide(m, self, size, align) ==
    LET r == round_up_to_nearest_pow2(size)
        size1 == max(r.val, HEADER_SIZE)
        align1 == max(align, HEADER_SIZE)
    IN  IF ~r.ok THEN ProvideNone(m)
        ELSE IF is_allocated(m, self) \/ ~can_provide(m, self, size1, align1)
             THEN ProvideNone(m)
             ELSE split(m, self, size1, align1)

\* Mutant: the loop gives up after the first header.
walk_first_only(m, e, size, align, fuel) ==
    IF e = None \/ fuel = 0
    THEN [some |-> FALSE, ptr |-> null_mut, mem |-> m, panic |-> FALSE]
    ELSE provide(m, e, size, align)

\* ------------------------------------------------------- FirstFitAllocator
\* The loop of alloc_with_options, from header e; fuel bounds the walk.
RECURSIVE walk(_, _, _, _, _)
walk(m, e, size, align, fuel) ==
    IF e = None \/ fuel = 0
    THEN [some |-> FALSE, ptr |-> null_mut, mem |-> m, panic |-> FALSE]
    ELSE LET r == provide(m, e, size, align)
         IN  IF r.some \/ r.panic THEN r
             ELSE walk(m, m[e].next_header, size, align, fuel - 1)

alloc_with_options(fh, m, size, align) ==
    walk(m, fh, size, align, Cardinality(DOMAIN m) + 1)

\* Mutant: a deallocation that merges the freed chunk into a free
\* predecessor that ends where it starts, removing its header.
dealloc_coalesce(m, ptr, layout) ==
    LET region == from_allocated_region(ptr)
        preds == { p \in DOMAIN m : /\ m[p].next_header = region
                                    /\ ~m[p].is_allocated
                                    /\ p + m[p].size = region }
    IN  IF region \notin DOMAIN m THEN m
        ELSE IF preds = {} THEN [m EXCEPT ![region].is_allocated = FALSE]
        ELSE LET p == CHOOSE x \in preds : TRUE
             IN  [a \in DOMAIN m \ {region} |->
                     IF a = p
                     THEN Header(m[region].next_header, m[p].size + m[region].size, FALSE)
                     ELSE m[a]]

\* Mutant: a sized deallocation that rewrites the chunk size from the layout.
dealloc_sized(m, ptr, layout) ==
    LET region == from_allocated_region(ptr)
    IN  IF region \in DOMAIN m
        THEN [m EXCEPT ![region].is_allocated = FALSE,
                       ![region].size = layout.size + HEADER_SIZE]
        ELSE m

\* layout is the _layout parameter, which the code does not read.
dealloc(m, ptr, layout) ==
    LET region == from_allocated_region(ptr)
    IN  IF region \in DOMAIN m THEN [m EXCEPT ![region].is_allocated = FALSE]
                               ELSE m

CONVENTIONAL_MEMORY == "CONVENTIONAL_MEMORY"
RESERVED_MEMORY_TYPE == "RESERVED_MEMORY_TYPE"

\* Mutant: the cell hands out a second mutable borrow.
borrow_unchecked(b) == [panic |-> FALSE, borrowed |-> TRUE]

\* RefCell::borrow_mut on first_header: panics when it is already borrowed.
borrow_mut(b) == [panic |-> b, borrowed |-> TRUE]

\* Mutant: a region of exactly one page is taken.
too_small_strict(size) == size < PAGE_SIZE

\* Mutant: the size check is left out.
too_small_never(size) == FALSE

\* if size <= 4096 { return; }
too_small(size) == size <= PAGE_SIZE

add_free_from_descriptor(s, desc) ==
    LET start0 == desc.physical_start
        size0 == desc.number_of_pages * PAGE_SIZE
        start_addr == IF start0 = 0 THEN start0 + PAGE_SIZE ELSE start0
        size == IF start0 = 0 THEN saturating_sub(size0, PAGE_SIZE) ELSE size0
        m1 == new_from_addr(s.mem, start_addr)
        m2 == [m1 EXCEPT ![start_addr].next_header = None,
                         ![start_addr].is_allocated = FALSE,
                         ![start_addr].size = size]
        prev_last == s.first
    IN  IF too_small(size) THEN s
        ELSE IF borrow_mut(s.borrowed).panic
             THEN [s EXCEPT !.mem = m2, !.panic = TRUE]
             ELSE [s EXCEPT !.first = start_addr,
                            !.mem = [m2 EXCEPT ![start_addr].next_header = prev_last]]

RECURSIVE init_from(_, _, _)
init_from(s, memory_map, i) ==
    IF i > Len(memory_map) \/ s.panic THEN s
    ELSE LET e == memory_map[i]
         IN  IF e.memory_type # CONVENTIONAL_MEMORY
             THEN init_from(s, memory_map, i + 1)
             ELSE init_from(add_free_from_descriptor(s, e), memory_map, i + 1)

init_with_mmap(s, memory_map) == init_from(s, memory_map, 1)

\* ------------------------------------------------------------------ inputs
Desc(t, start, pages) ==
    [memory_type |-> t, physical_start |-> start, number_of_pages |-> pages]

Descriptors ==
    { Desc(CONVENTIONAL_MEMORY, 0, 3),
      Desc(CONVENTIONAL_MEMORY, 0, 2),
      Desc(CONVENTIONAL_MEMORY, 0, 0),
      Desc(RESERVED_MEMORY_TYPE, 3 * PAGE_SIZE, 1),
      Desc(CONVENTIONAL_MEMORY, 3 * PAGE_SIZE, 1),
      Desc(CONVENTIONAL_MEMORY, 4 * PAGE_SIZE, 2) }

DescPages(d) ==
    { p \in 0..8 : d.physical_start <= p * PAGE_SIZE
                   /\ p * PAGE_SIZE < d.physical_start + d.number_of_pages * PAGE_SIZE }

\* A firmware memory map: descriptors of pairwise disjoint page ranges.
IsMemoryMap(mm) ==
    \A i, j \in 1..Len(mm) : i # j => DescPages(mm[i]) \cap DescPages(mm[j]) = {}

MemoryMaps ==
    { mm \in UNION { [1..n -> Descriptors] : n \in 0..MaxDescs } : IsMemoryMap(mm) }

Sizes == {0, 1, 33, 1234, UsizeMax}
Aligns == {1, 64, 4096}
Layout(size, align) == [size |-> size, align |-> align]
Layouts == { Layout(s, a) : s \in Sizes, a \in Aligns }

\* ------------------------------------------------------------------- state
VARIABLES
    first_header,   \* FirstFitAllocator.first_header
    hdr,            \* the headers in memory, by address
    live,           \* allocations returned and not yet deallocated
    inited,         \* init_with_mmap has run
    panicked,       \* the assert of provide fired
    op,             \* the last call
    req,            \* its layout
    ret,            \* the pointer it returned
    found,          \* alloc_with_options left its loop with Some(p)
    nalloc,         \* successful allocations so far; names the allocations in live
    hdr0,           \* the headers as init_with_mmap left them
    borrowed,       \* the RefCell of first_header is mutably borrowed
    pending,        \* the layout of the alloc_with_options that holds the borrow
    mmap,           \* the memory map init_with_mmap was given, where observed
    v,              \* the argument of round_up_to_nearest_pow2, where applied alone
    rounded,        \* its result
    handed          \* every pointer alloc has returned so far, where recorded

cell == <<borrowed, pending>>
probe == <<mmap, v, rounded, handed>>
vars == <<first_header, hdr, live, inited, panicked, op, req, ret, found, nalloc, hdr0,
          borrowed, pending, mmap, v, rounded, handed>>

NoLayout == Layout(0, 0)
NotRounded == [done |-> FALSE, ok |-> FALSE, val |-> 0]

InitAllocator ==
    /\ first_header = None
    /\ hdr = << >>
    /\ live = {}
    /\ inited = FALSE
    /\ panicked = FALSE
    /\ op = "new"
    /\ req = NoLayout
    /\ ret = null_mut
    /\ found = FALSE
    /\ nalloc = 0
    /\ hdr0 = << >>
    /\ borrowed = FALSE
    /\ pending = NoLayout
    /\ mmap = << >>
    /\ handed = {}

Init == InitAllocator /\ v = 0 /\ rounded = NotRounded

InitCall(memory_map) ==
    /\ ~inited /\ ~panicked
    /\ \E s \in {init_with_mmap([first |-> first_header, mem |-> hdr,
                                  borrowed |-> borrowed, panic |-> FALSE], memory_map)} :
           /\ first_header' = s.first
           /\ hdr' = s.mem
           /\ hdr0' = s.mem
           /\ panicked' = s.panic
    /\ inited' = TRUE
    /\ op' = "init"
    /\ req' = NoLayout
    /\ ret' = null_mut
    /\ found' = FALSE
    /\ UNCHANGED <<live, nalloc, cell, v, rounded, handed>>

InitWithMmap(memory_map) == InitCall(memory_map) /\ UNCHANGED mmap

AllocCall(layout) ==
    /\ ~panicked
    /\ Cardinality(DOMAIN hdr) < MaxHeaders
    /\ \E r \in {alloc_with_options(first_header, hdr, layout.size, layout.align)} :
           /\ hdr' = r.mem
           /\ panicked' = r.panic
           /\ ret' = r.ptr
           /\ found' = r.some
           /\ nalloc' = IF r.some THEN nalloc + 1 ELSE nalloc
           /\ live' = IF r.some
                      THEN live \cup {[id |-> nalloc + 1, ptr |-> r.ptr,
                                       size |-> layout.size, align |-> layout.align]}
                      ELSE live
    /\ op' = "alloc"
    /\ req' = layout
    /\ UNCHANGED <<first_header, inited, hdr0, cell, mmap, v, rounded>>

Alloc(layout) == AllocCall(layout) /\ UNCHANGED handed

\* The layout a caller hands to dealloc: the one of the allocation, or another.
DeallocLayouts(l) == {Layout(l.size, l.align), Layout(UsizeMax, 1)}

Dealloc(l) ==
    /\ ~panicked
    /\ l \in live
    /\ \E layout \in DeallocLayouts(l) : hdr' = dealloc(hdr, l.ptr, layout)
    /\ live' = live \ {l}
    /\ op' = "dealloc"
    /\ req' = Layout(l.size, l.align)
    /\ ret' = l.ptr
    /\ found' = FALSE
    /\ UNCHANGED <<first_header, inited, panicked, nalloc, hdr0, cell, probe>>

Next ==
    \/ \E mm \in MemoryMaps : InitWithMmap(mm)
    \/ \E layout \in Layouts : Alloc(layout)
    \/ \E l \in live : Dealloc(l)

Spec == Init /\ [][Next]_vars

\* The alloc/free churn of malloc_iterate_free_and_alloc: every allocation is
\* deallocated before the next one is requested.
ChurnNext ==
    \/ \E mm \in MemoryMaps : InitWithMmap(mm)
    \/ \E layout \in Layouts : live = {} /\ Alloc(layout)
    \/ \E l \in live : Dealloc(l)

SpecChurn == Init /\ [][ChurnNext]_vars

\* init_with_mmap with the memory map it was given kept for inspection.
InitObserved(memory_map) == InitCall(memory_map) /\ mmap' = memory_map

ObservedNext ==
    \/ \E mm \in MemoryMaps : InitObserved(mm)
    \/ \E layout \in Layouts : nalloc < MaxObservedAllocs /\ Alloc(layout)
    \/ \E l \in live : Dealloc(l)

SpecInit == Init /\ [][ObservedNext]_vars

\* alloc with every pointer it returns kept for inspection.
AllocRecorded(layout) ==
    /\ AllocCall(layout)
    /\ handed' = IF found' THEN handed \cup {ret'} ELSE handed

HistoryNext ==
    \/ \E mm \in MemoryMaps : InitWithMmap(mm)
    \/ \E layout \in Layouts : AllocRecorded(layout)
    \/ \E l \in live : Dealloc(l)

SpecHistory == Init /\ [][HistoryNext]_vars

\* round_up_to_nearest_pow2 applied on its own.
\* Every value of the word.
RoundInputs == 0..UsizeMax

InitPow2 == InitAllocator /\ v \in RoundInputs /\ rounded = NotRounded

RoundUp ==
    /\ ~rounded.done
    /\ \E r \in {round_up_to_nearest_pow2(v)} :
           rounded' = [done |-> TRUE, ok |-> r.ok, val |-> r.val]
    /\ UNCHANGED <<first_header, hdr, live, inited, panicked, op, req, ret, found,
                   nalloc, hdr0, cell, mmap, v, handed>>

SpecPow2 == InitPow2 /\ [][RoundUp]_vars

\* alloc_with_options in two steps, so that a second call can be entered
\* while the first holds the borrow of first_header (an interrupt handler
\* that allocates).  line 175: let mut header = self.first_header.borrow_mut()
AllocEnter(layout) ==
    /\ ~panicked
    /\ Cardinality(DOMAIN hdr) < MaxHeaders
    /\ nalloc < MaxReentryAllocs
    /\ \E r \in {borrow_mut(borrowed)} :
           /\ panicked' = r.panic
           /\ borrowed' = r.borrowed
           /\ pending' = IF r.panic THEN pending ELSE layout
    /\ op' = "alloc_enter"
    /\ req' = layout
    /\ ret' = null_mut
    /\ found' = FALSE
    /\ UNCHANGED <<first_header, hdr, live, inited, nalloc, hdr0, probe>>

\* lines 176-191: the loop, and the borrow dropped on return.
AllocRun ==
    /\ ~panicked
    /\ borrowed
    /\ \E r \in {alloc_with_options(first_header, hdr, pending.size, pending.align)} :
           /\ hdr' = r.mem
           /\ panicked' = r.panic
           /\ ret' = r.ptr
           /\ found' = r.some
           /\ nalloc' = IF r.some THEN nalloc + 1 ELSE nalloc
           /\ live' = IF r.some
                      THEN live \cup {[id |-> nalloc + 1, ptr |-> r.ptr,
                                       size |-> pending.size, align |-> pending.align]}
                      ELSE live
    /\ borrowed' = FALSE
    /\ pending' = NoLayout
    /\ op' = "alloc"
    /\ req' = pending
    /\ UNCHANGED <<first_header, inited, hdr0, probe>>

\* The requests of the runs that allow re-entry.
ReentryLayouts == { Layout(s, a) : s \in {1, 1234}, a \in {1, 4096} }

ReentryNext ==
    \/ \E mm \in MemoryMaps : InitObserved(mm)
    \/ \E layout \in ReentryLayouts : AllocEnter(layout)
    \/ AllocRun
    \/ \E l \in live : Dealloc(l)

SpecReentry == Init /\ [][ReentryNext]_vars

\* ------------------------------------------------------- reading the state
\* The headers reached from e through next_header, in chain order.
RECURSIVE ChainFrom(_, _, _)
ChainFrom(m, e, fuel) ==
    IF e = None \/ fuel = 0 \/ e \notin DOMAIN m THEN << >>
    ELSE <<e>> \o ChainFrom(m, m[e].next_header, fuel - 1)

ChainSeq(fh, m) == ChainFrom(m, fh, Cardinality(DOMAIN m))
Chain == LET c == ChainSeq(first_header, hdr) IN { c[i] : i \in 1..Len(c) }

\* The bytes [lo, hi) and [lo2, hi2) share no byte.
Disjoint(lo, hi, lo2, hi2) == hi <= lo2 \/ hi2 <= lo \/ lo = hi \/ lo2 = hi2

AllocStep == op' = "alloc"

\* Every header is written at a multiple of HEADER_SIZE, so two headers are
\* the same header or share no byte, and hdr is a faithful picture of memory.
HeadersAligned == \A a \in DOMAIN hdr : a % HEADER_SIZE = 0 /\ a + HEADER_SIZE <= Word

NoPanic == ~panicked

\* ------------------------------------------------------------------ claims

\* C1 (Non-overlap): the byte ranges [p, p + size) of any two live
\* allocations are disjoint.
C1_NonOverlap ==
    \A l1, l2 \in live :
        l1 # l2 => Disjoint(l1.ptr, l1.ptr + l1.size, l2.ptr, l2.ptr + l2.size)

\* Some allocation was freed and three non-empty allocations are live.
C1_Witness ==
    /\ Cardinality({l \in live : l.size > 0}) >= 3
    /\ Cardinality(live) < nalloc

\* C2 (Alignment): a pointer returned by allocate(L) is a multiple of
\* max(L.align, HEADER_SIZE), and so of L.align.
C2_Alignment ==
    (op = "alloc" /\ found) =>
        /\ ret % max(req.align, HEADER_SIZE) = 0
        /\ ret % req.align = 0

\* A page-aligned request was served from a heap that already held
\* allocations.
C2_Witness ==
    op = "alloc" /\ found /\ req.align = 4096 /\ nalloc >= 3

\* C3 (Null-freedom): a successful allocate never returns address 0, also
\* when the memory map has a conventional descriptor that starts at 0.
C3_NullFreedom ==
    (op = "alloc" /\ found) => ret # null_mut

\* An allocation was served by the region that init_with_mmap moved off page 0.
C3_Witness ==
    /\ op = "alloc" /\ found
    /\ PAGE_SIZE \in DOMAIN hdr0
    /\ ret > PAGE_SIZE /\ ret < 3 * PAGE_SIZE

\* C4 (Non-overlap with metadata): the bytes of a live allocation share no
\* byte with the HEADER_SIZE bytes of any header of the chain.
C4_NoMetadataOverlap ==
    \A l \in live : \A h \in Chain :
        Disjoint(l.ptr, l.ptr + l.size, h, h + HEADER_SIZE)

\* Live allocations next to a padding header: a free header that no
\* init_with_mmap wrote and no allocation was returned for.
C4_Witness ==
    /\ Cardinality({l \in live : l.size > HEADER_SIZE}) >= 2
    /\ \E h \in Chain : /\ ~hdr[h].is_allocated
                        /\ h \notin DOMAIN hdr0
                        /\ hdr[h].size > HEADER_SIZE
                        /\ \E l \in live : l.ptr + l.size > h - HEADER_SIZE /\ l.ptr < h

\* The smallest power of two >= v, for 1 <= v <= 2^(WordBits-1).
PowersOfTwo == { Pow2(k) : k \in 0..(WordBits - 1) }

SmallestPow2(n) ==
    CHOOSE p \in PowersOfTwo : p >= n /\ \A q \in PowersOfTwo : q >= n => p <= q

Roundable(n) == n >= 1 /\ n <= Pow2(WordBits - 1)

\* The normalised request of provide: max(round_up_pow2(size), H), max(align, H).
NormSize(l) == max(SmallestPow2(l.size), HEADER_SIZE)
NormAlign(l) == max(l.align, HEADER_SIZE)

\* Header a of memory m is free and passes the can_provide test for (size, align).
FreeAndFits(m, a, size, align) ==
    ~m[a].is_allocated /\ m[a].size >= size + 2 * HEADER_SIZE + align

\* The request fits the heap as init_with_mmap left it.
FitsFresh(l) ==
    /\ Roundable(l.size)
    /\ \E a \in DOMAIN hdr0 : FreeAndFits(hdr0, a, NormSize(l), NormAlign(l))

\* C5 (Alloc/free churn never fails), as claimed: in a run that frees every
\* allocation before the next request, a request that fits the fresh heap
\* never gets null.
C5_ChurnNeverFails ==
    (op = "alloc" /\ FitsFresh(req)) => found

\* C6 (Zero-size request), as claimed: a request of size 0 is served like a
\* request of size HEADER_SIZE whenever some free chunk can provide it.
C6_ZeroSizeServed ==
    [][(AllocStep /\ req'.size = 0
          /\ \E a \in Chain : FreeAndFits(hdr, a, HEADER_SIZE, NormAlign(req')))
       => /\ found' /\ ret' # null_mut
          /\ (ret' - HEADER_SIZE) \in DOMAIN hdr'
          /\ hdr'[ret' - HEADER_SIZE].size = 2 * HEADER_SIZE]_vars

\* C6, amended: a request of size 0 gets null and changes no header, because
\* round_up_to_nearest_pow2(0) is out of range; a request of size 1..H is
\* normalised to H and, when some free chunk can provide (H, max(align, H)),
\* gets a non-null pointer to an allocated chunk of size 2*H.
C6_ZeroSizeRefused ==
    [][AllocStep =>
        /\ req'.size = 0 => (~found' /\ ret' = null_mut /\ hdr' = hdr /\ ~panicked')
        /\ (req'.size \in 1..HEADER_SIZE
              /\ \E a \in Chain : FreeAndFits(hdr, a, HEADER_SIZE, NormAlign(req')))
           => /\ found' /\ ret' # null_mut
              /\ (ret' - HEADER_SIZE) \in DOMAIN hdr'
              /\ hdr'[ret' - HEADER_SIZE].size = 2 * HEADER_SIZE
              /\ hdr'[ret' - HEADER_SIZE].is_allocated]_vars

\* A request of size 0 got null although a free chunk could provide H bytes.
C6_Witness ==
    /\ op = "alloc" /\ req.size = 0 /\ ~found
    /\ \E a \in Chain : FreeAndFits(hdr, a, HEADER_SIZE, NormAlign(req))

\* C7 (Failed allocation leaves the heap intact): an allocate that returns
\* null does not panic and changes neither head nor any header.
C7_FailedAllocKeepsHeap ==
    [][(AllocStep /\ ~found') =>
        /\ ~panicked'
        /\ ret' = null_mut
        /\ hdr' = hdr
        /\ first_header' = first_header
        /\ live' = live]_vars

\* allocate(usize::MAX) got null on a heap that holds allocations and can
\* still serve a small request.
C7_Witness ==
    /\ op = "alloc" /\ ~found /\ req.size = UsizeMax
    /\ live # {}
    /\ \E a \in Chain : FreeAndFits(hdr, a, HEADER_SIZE, HEADER_SIZE)

\* C8 (Flag round-trip): the header before a live pointer has is_allocated
\* set, whatever other calls were made since it was returned, and the header
\* before a pointer that has just been deallocated has it cleared.
C8_FlagRoundTrip ==
    /\ \A l \in live :
          /\ (l.ptr - HEADER_SIZE) \in DOMAIN hdr
          /\ hdr[l.ptr - HEADER_SIZE].is_allocated
    /\ op = "dealloc" =>
          /\ (ret - HEADER_SIZE) \in DOMAIN hdr
          /\ ~hdr[ret - HEADER_SIZE].is_allocated

\* A pointer was deallocated while an older and a newer allocation stay live.
C8_Witness ==
    /\ op = "dealloc"
    /\ \E l1, l2 \in live : l1.ptr < ret /\ ret < l2.ptr

\* C9 (Sufficient payload): the header before a returned pointer has size
\* max(round_up_pow2(L.size), H) + H, which is at least L.size + H, and its
\* chunk lies inside the free chunk it was carved from.
C9_SufficientPayload ==
    [][(AllocStep /\ found') =>
        LET ha == ret' - HEADER_SIZE
        IN  /\ ha \in DOMAIN hdr'
            /\ hdr'[ha].size = NormSize(req') + HEADER_SIZE
            /\ hdr'[ha].size >= req'.size + HEADER_SIZE
            /\ \E self \in Chain :
                  /\ ~hdr[self].is_allocated
                  /\ hdr'[self].size < hdr[self].size
                  /\ self <= ha
                  /\ ha + hdr'[ha].size <= self + hdr[self].size]_vars

\* A request whose size is no power of two was served, with a padding header
\* behind its chunk, from a heap that already held allocations.
C9_Witness ==
    /\ op = "alloc" /\ found /\ req.size = 33 /\ nalloc >= 2
    /\ hdr[ret - HEADER_SIZE].next_header = ret + 2 * HEADER_SIZE
    /\ ~hdr[ret + 2 * HEADER_SIZE].is_allocated

\* C10 (First fit): allocate serves the request from the first chunk of the
\* chain that is free and passes can_provide for the normalised request,
\* leaves the chunks before it unchanged, and returns null only when no
\* chunk of the chain is free and passes.
C10_FirstFit ==
    [][AllocStep =>
        \A c \in {ChainSeq(first_header, hdr)} :
        \A size \in {IF Roundable(req'.size) THEN NormSize(req') ELSE 0} :
        \A fits \in {{ i \in 1..Len(c) :
                        /\ Roundable(req'.size)
                        /\ FreeAndFits(hdr, c[i], size, NormAlign(req')) }} :
            IF fits = {}
            THEN ~found' /\ ret' = null_mut
            ELSE \E i0 \in fits :
                     /\ \A j \in fits : i0 <= j
                     /\ found'
                     /\ c[i0] < ret'
                     /\ ret' + size <= c[i0] + hdr[c[i0]].size
                     /\ hdr'[c[i0]].size < hdr[c[i0]].size
                     /\ \A j \in 1..(i0 - 1) : hdr'[c[j]] = hdr[c[j]]]_vars

\* A request passed over the head chunk, which could not provide it, and
\* was served by a later chunk.
C10_Witness ==
    /\ op = "alloc" /\ found
    /\ first_header \in DOMAIN hdr
    /\ ~(first_header < ret /\ ret < first_header + hdr0[first_header].size)

\* C11 (Deallocate frame): deallocate(p, L) changes the is_allocated flag of
\* the header at p - H and nothing else: not its size or next, not head, not
\* any other header, and no header appears or disappears, whatever L is.
C11_DeallocFrame ==
    [][op' = "dealloc" =>
        /\ first_header' = first_header
        /\ DOMAIN hdr' = DOMAIN hdr
        /\ (ret' - HEADER_SIZE) \in DOMAIN hdr
        /\ \A a \in DOMAIN hdr :
              /\ hdr'[a].size = hdr[a].size
              /\ hdr'[a].next_header = hdr[a].next_header
              /\ a # ret' - HEADER_SIZE => hdr'[a] = hdr[a]]_vars

\* A chunk was deallocated whose successor in the chain is a free chunk that
\* starts where it ends (a neighbour it could have been merged with).
C11_Witness ==
    /\ op = "dealloc"
    /\ \E n \in DOMAIN hdr :
          /\ hdr[ret - HEADER_SIZE].next_header = n
          /\ n = ret - HEADER_SIZE + hdr[ret - HEADER_SIZE].size
          /\ ~hdr[n].is_allocated
    /\ live # {}

\* The chunk the request of an alloc step is carved from: the first header of
\* chain c that is free and has size >= size + 2*H + align, or None.
Carved(m, c, size, align) ==
    LET fits == { i \in 1..Len(c) : FreeAndFits(m, c[i], size, align) }
    IN  IF fits = {} THEN None
        ELSE c[CHOOSE i \in fits : \A j \in fits : i <= j]

\* C16 (Split structure): a successful provide on free chunk self with old
\* successor N and old end E returns payload = (E - size') rounded down to
\* align' and leaves self -> allocated -> N when payload + size' = E, and
\* self -> allocated -> padding -> N otherwise; allocated is at payload - H
\* with size size' + H, padding at payload + size' with size
\* E - (payload + size'), and self shrinks by the sizes of both.
C16_SplitStructure ==
    [][(AllocStep /\ found') =>
        \A size \in {NormSize(req')} : \A align \in {NormAlign(req')} :
        \A self \in {Carved(hdr, ChainSeq(first_header, hdr), size, align)} :
            /\ self # None
            /\ LET N == hdr[self].next_header
                   E == self + hdr[self].size
                   payload == (E - size) - ((E - size) % align)
                   ha == payload - HEADER_SIZE
                   hp == payload + size
               IN  /\ ret' = payload
                   /\ hdr'[self].next_header = ha
                   /\ hdr'[self].is_allocated = hdr[self].is_allocated
                   /\ IF hp = E
                      THEN /\ DOMAIN hdr' = DOMAIN hdr \cup {ha}
                           /\ hdr'[ha] = Header(N, size + HEADER_SIZE, TRUE)
                           /\ hdr'[self].size = hdr[self].size - (size + HEADER_SIZE)
                      ELSE /\ DOMAIN hdr' = DOMAIN hdr \cup {ha, hp}
                           /\ hdr'[ha] = Header(hp, size + HEADER_SIZE, TRUE)
                           /\ hdr'[hp] = Header(N, E - hp, FALSE)
                           /\ hdr'[self].size =
                                 hdr[self].size - (size + HEADER_SIZE) - (E - hp)
                   /\ \A a \in DOMAIN hdr \ {self} : hdr'[a] = hdr[a]]_vars

\* A split with a padding header, of a chunk that had a successor.
C16_Witness ==
    /\ op = "alloc" /\ found
    /\ LET ha == ret - HEADER_SIZE
       IN  /\ hdr[ha].next_header \in DOMAIN hdr
           /\ ~hdr[hdr[ha].next_header].is_allocated
           /\ hdr[ha].next_header = ha + hdr[ha].size
           /\ hdr[hdr[ha].next_header].next_header # None

\* C17 (Shrink assertion and no aliasing): the assert of provide never
\* fires, and on every successful allocate the chunk self that was carved
\* satisfies end_addr - size' >= 0, payload - H >= address_of(self) + H and
\* self.size >= size_used + H, where size_used = end_addr - (payload - H).
C17_NoAliasNoAssert ==
    [][AllocStep =>
        /\ ~panicked'
        /\ found' =>
             \A size \in {NormSize(req')} :
             \A self \in {Carved(hdr, ChainSeq(first_header, hdr), size, NormAlign(req'))} :
                 /\ self # None
                 /\ self + hdr[self].size - size >= 0
                 /\ ret' - HEADER_SIZE >= self + HEADER_SIZE
                 /\ hdr[self].size >=
                       (self + hdr[self].size - (ret' - HEADER_SIZE)) + HEADER_SIZE
                 /\ hdr'[self] # hdr'[ret' - HEADER_SIZE]]_vars

\* A chunk that an earlier split had already shrunk was split again for a
\* page-aligned request.
C17_Witness ==
    /\ op = "alloc" /\ found /\ req.align = 4096
    /\ \E self \in DOMAIN hdr0 :
          /\ hdr[self].next_header = ret - HEADER_SIZE
          /\ hdr[self].size + NormSize(req) + HEADER_SIZE < hdr0[self].size
          /\ hdr[self].size < 2 * PAGE_SIZE - 4 * HEADER_SIZE - 1234

\* C18 (Chunks are disjoint): the byte ranges [h, h + h.size) of any two
\* distinct headers of the chain share no byte.
C18_ChunksDisjoint ==
    \A h1, h2 \in Chain :
        h1 # h2 => (h1 + hdr[h1].size <= h2 \/ h2 + hdr[h2].size <= h1)

\* Two regions, each split at least once, one of them with a padding header.
C18_Witness ==
    /\ Cardinality(DOMAIN hdr0) = 2
    /\ \A r \in DOMAIN hdr0 : hdr[r].size < hdr0[r].size
    /\ Cardinality(Chain) >= 5

\* C19 (Minimum chunk size): every header of the chain has size >= H.
C19_MinChunkSize ==
    \A h \in Chain : hdr[h].size >= HEADER_SIZE

\* A padding header of exactly H bytes and a region chunk that was shrunk
\* twice.
C19_Witness ==
    /\ \E h \in Chain \ DOMAIN hdr0 :
          ~hdr[h].is_allocated /\ hdr[h].size = HEADER_SIZE /\ nalloc = Cardinality(live)
    /\ nalloc >= 2

\* The addresses of the headers reached from fh in memory m.
RECURSIVE ReachableFrom(_, _, _)
ReachableFrom(m, e, fuel) ==
    IF e = None \/ fuel = 0 \/ e \notin DOMAIN m THEN {}
    ELSE {e} \cup ReachableFrom(m, m[e].next_header, fuel - 1)

Reachable(fh, m) == ReachableFrom(m, fh, Cardinality(DOMAIN m))

\* C20 (Headers are never removed): the set of header addresses reachable
\* from head only grows; a successful allocate adds one or two, a failed
\* allocate and a deallocate add none.
C20_HeadersNeverRemoved ==
    [][\A before \in {Reachable(first_header, hdr)} :
       \A after \in {Reachable(first_header', hdr')} :
        /\ before \subseteq after
        /\ (op' = "alloc" /\ found') => Cardinality(after \ before) \in {1, 2}
        /\ (op' = "alloc" /\ ~found') => after = before
        /\ op' = "dealloc" => after = before]_vars

\* An allocation was carved from a chunk in the middle of a chain of at
\* least four headers, after some pointer had been deallocated.
C20_Witness ==
    /\ op = "alloc" /\ found
    /\ Cardinality(Chain) >= 4
    /\ Cardinality(live) < nalloc
    /\ hdr[ret - HEADER_SIZE].next_header # None

\* What a descriptor contributes once the page at address 0 is skipped.
AdjustedStart(d) == IF d.physical_start = 0 THEN PAGE_SIZE ELSE d.physical_start
AdjustedBytes(d) ==
    IF d.physical_start = 0
    THEN max(d.number_of_pages * PAGE_SIZE - PAGE_SIZE, 0)
    ELSE d.number_of_pages * PAGE_SIZE
Qualifies(d) == d.memory_type = CONVENTIONAL_MEMORY /\ AdjustedBytes(d) > PAGE_SIZE

\* C12 (initialisation result): after init_with_mmap on a descriptor
\* sequence the chain holds exactly one free header per qualifying
\* descriptor (CONVENTIONAL_MEMORY with more than 4096 bytes left once a
\* start of 0 is moved up one page), at the adjusted start, with size the
\* adjusted bytes and is_allocated false, linked in reverse order of the
\* descriptors; every other descriptor contributes nothing.
C12_InitResult ==
    inited =>
        \A q \in {SelectSeq(mmap, Qualifies)} :
            /\ ChainSeq(first_header, hdr0)
                   = [i \in 1..Len(q) |-> AdjustedStart(q[Len(q) + 1 - i])]
            /\ DOMAIN hdr0 = { AdjustedStart(q[i]) : i \in 1..Len(q) }
            /\ \A i \in 1..Len(q) :
                   /\ hdr0[AdjustedStart(q[i])].size = AdjustedBytes(q[i])
                   /\ ~hdr0[AdjustedStart(q[i])].is_allocated
            /\ op = "init" => hdr = hdr0

C12_Witness ==
    /\ op = "init"
    /\ Len(mmap) = 2
    /\ mmap[1].physical_start = 0
    /\ Qualifies(mmap[1]) /\ Qualifies(mmap[2])
    /\ ChainSeq(first_header, hdr) = <<mmap[2].physical_start, PAGE_SIZE>>

\* The table of round_up_to_nearest_pow2_tests.
RoundUpTests == { <<1, 1>>, <<2, 2>>, <<3, 4>>, <<4, 4>>, <<5, 8>>,
                  <<6, 8>>, <<7, 8>>, <<8, 8>>, <<9, 16>> }

\* C13 (rounding law): for every v with 1 <= v <= 2^(W-1),
\* round_up_to_nearest_pow2(v) succeeds and its result r is a power of two
\* with r >= v and r/2 < v; 1->1, 2->2, 3->4, 4->4, 5..8->8, 9->16.
C13_RoundUpLaw ==
    (rounded.done /\ Roundable(v)) =>
        /\ rounded.ok
        /\ rounded.val \in PowersOfTwo
        /\ rounded.val >= v
        /\ rounded.val \div 2 < v
        /\ \A t \in RoundUpTests : v = t[1] => rounded.val = t[2]

C13_Witness ==
    /\ rounded.done
    /\ v = Pow2(WordBits - 2) + 1
    /\ rounded.ok
    /\ rounded.val = Pow2(WordBits - 1)

\* C14 (range errors): round_up_to_nearest_pow2(v) is the "Out of range"
\* error exactly when v = 0 or v > 2^(W-1); for every other v it is Ok, and
\* an Ok result is never a wrapped value: it is the smallest power of two
\* that is >= v.
C14_RangeErrors ==
    rounded.done =>
        /\ ~rounded.ok <=> (v = 0 \/ v > Pow2(WordBits - 1))
        /\ rounded.ok => rounded.val = SmallestPow2(v)

C14_Witness ==
    /\ rounded.done
    /\ v = Pow2(WordBits - 1) + 1
    /\ ~rounded.ok

\* A step that enters alloc_with_options or init_with_mmap while the
\* borrow of first_header is held.
ReentrantEntry == borrowed /\ op' \in {"alloc_enter", "init"}

\* init_with_mmap reaches add_free_from_descriptor for some descriptor.
InitStepEntered ==
    /\ op' = "init"
    /\ \E i \in 1..Len(mmap') : mmap'[i].memory_type = CONVENTIONAL_MEMORY

\* The head and every header reachable from it are as they were.
ChainKept ==
    /\ first_header' = first_header
    /\ live' = live
    /\ \A a \in Reachable(first_header, hdr) : a \in DOMAIN hdr' /\ hdr'[a] = hdr[a]

\* C15 as stated (re-entry is fatal): an allocate or an init step entered
\* while another allocate holds the mutable borrow of the head panics, and
\* the chain is as it was.
C15_EveryReentryPanics ==
    [][(borrowed /\ (op' = "alloc_enter" \/ InitStepEntered))
           => (panicked' /\ ChainKept)]_vars

\* C15, amended: an allocate entered while another allocate holds the
\* borrow panics with the chain as it was.  init_with_mmap entered then
\* panics exactly when some descriptor qualifies (only such a descriptor
\* reaches borrow_mut; the others are skipped and the call returns), and
\* leaves the chain as it was either way.  Nothing runs after the panic.
C15_ReentryFatal ==
    [][ /\ ~panicked
        /\ ReentrantEntry =>
               /\ ChainKept
               /\ op' = "alloc_enter" => panicked'
               /\ op' = "init" =>
                      (panicked' <=> \E i \in 1..Len(mmap') : Qualifies(mmap'[i])) ]_vars

C15_Witness ==
    /\ panicked
    /\ borrowed
    /\ op = "alloc_enter"
    /\ live # {}
    /\ pending # req

\* The sum of size over the headers of set S in memory m.
RECURSIVE SumSize(_, _)
SumSize(m, S) ==
    IF S = {} THEN 0
    ELSE LET a == CHOOSE x \in S : TRUE
         IN  m[a].size + SumSize(m, S \ {a})

\* C21 (size conservation): after any sequence of allocate and deallocate
\* calls the sizes of the headers reachable from first_header add up to the
\* bytes init_with_mmap ingested, the sum of the sizes of the initial region
\* headers; a split moves bytes between self, allocated and padding and
\* neither creates nor loses any.
C21_SizeConservation ==
    inited => SumSize(hdr, Reachable(first_header, hdr)) = SumSize(hdr0, DOMAIN hdr0)

\* Two regions, a split with padding, and a chunk deallocated since.
C21_Witness ==
    /\ Cardinality(DOMAIN hdr0) = 2
    /\ nalloc >= 2
    /\ Cardinality(live) < nalloc
    /\ \E h \in Chain : /\ h \notin DOMAIN hdr0
                        /\ ~hdr[h].is_allocated
                        /\ \A p \in DOMAIN hdr : hdr[p].next_header = h => hdr[p].is_allocated

\* The init region that holds address h: the initial header r with
\* r <= h < r + size of r, or None.
RegionOf(h) ==
    IF \E r \in DOMAIN hdr0 : r <= h /\ h < r + hdr0[r].size
    THEN CHOOSE r \in DOMAIN hdr0 : r <= h /\ h < r + hdr0[r].size
    ELSE None

\* C22 (chain contiguity within a region): for every header h of the chain,
\* either h.next_header is the header located exactly at h.end_addr(), or
\* h.end_addr() is the end of the init region that holds h and h.next_header
\* is absent or is the first header of another region.  Every region's first
\* header stays in the chain, so the chain visits the chunks of a region in
\* increasing address order and they tile it without gaps.
C22_ChainContiguity ==
    \A c \in {Reachable(first_header, hdr)} :
        /\ DOMAIN hdr0 \subseteq c
        /\ \A h \in c :
              \A r \in {RegionOf(h)} : \A e \in {end_addr(hdr, h)} :
              \A n \in {hdr[h].next_header} :
                  /\ r # None
                  /\ \/ n = e /\ n \in c /\ RegionOf(n) = r
                     \/ /\ e = r + hdr0[r].size
                        /\ n = None \/ (n \in DOMAIN hdr0 /\ n # r)

\* The last chunk of one region is a padding chunk behind an allocated one,
\* and its successor is the first header of the other region.
C22_Witness ==
    \E h \in Chain :
        /\ h \notin DOMAIN hdr0
        /\ ~hdr[h].is_allocated
        /\ hdr[h].next_header \in DOMAIN hdr0
        /\ \E a \in Chain : hdr[a].is_allocated /\ hdr[a].next_header = h

\* C23 (no address is handed out twice): every non-null pointer alloc
\* returns differs from every pointer any earlier alloc returned, also when
\* the earlier allocation has been deallocated since: its header is a new
\* one, strictly after the start of the free chunk it is carved from.
C23_NeverHandedTwice ==
    [][(AllocStep /\ found') =>
          /\ ret' # null_mut
          /\ ret' \notin handed
          /\ from_allocated_region(ret') \notin DOMAIN hdr
          /\ \E self \in Reachable(first_header, hdr) :
                 /\ ~hdr[self].is_allocated
                 /\ self < from_allocated_region(ret')
                 /\ ret' < end_addr(hdr, self)]_vars

\* An allocation of a chunk size that an earlier, since deallocated,
\* allocation had: the freed chunk is not served again.
C23_Witness ==
    /\ op = "alloc" /\ found
    /\ \E p \in handed :
          /\ p # ret
          /\ p \notin { l.ptr : l \in live }
          /\ hdr[from_allocated_region(p)].size = hdr[from_allocated_region(ret)].size
          /\ ~hdr[from_allocated_region(p)].is_allocated

====
